---- MODULE Spec2Model ----
(***************************************************************************)
(* A model of CNTK's CompositeFunction                                     *)
(* (Source/CNTKv2LibraryDll/CompositeFunction.h): the traversal of the     *)
(* Function graph, the collection of the primitive functions a composite   *)
(* owns, placeholder replacement, the backprop state handed out by         *)
(* Forward, and the references to network storage handed out so far.       *)
(***************************************************************************)
EXTENDS Integers, Sequences, FiniteSets, Bags, TLC

\* ------------------------------------------------------------------ bounds

\* Number of primitive Function objects of a graph.
NumFunctions == 3

\* Largest number of inputs of one primitive Function.
MaxInputs == 2

\* Largest number of ReplacePlaceholders calls on one composite.
MaxReplaceCalls == 2

\* Largest time stamp a Parameter's value reaches.
MaxTimeStamp == 2

\* Largest number of PackedValues handed out.
MaxPackedValues == 4

\* Number of threads that call NextAutoGeneratedDynamicAxis.
NumThreads == 2

\* Largest number of calls of NextAutoGeneratedDynamicAxis.
MaxAxisCalls == 11

\* std::atomic<unsigned int>: an unsigned int has 32 bits, kept here as two
\* halves of 16 bits, each in 0 .. 2^16 - 1.
HalfModulus == 65536

\* ------------------------------------------------------------- Variables

Functions == 1..NumFunctions

\* The depth of the recursion of TraverseVariables is at most the number of
\* Functions (each is entered once); one frame more is room for a traversal
\* that enters a Function twice to be seen doing so.
MaxCallDepth == NumFunctions + 1

\* A Variable: its kind, the Function owning it (0: none) and its number.
OutputVar(f, k) == [kind |-> "Output", owner |-> f, id |-> k]

InputX == [kind |-> "Input", owner |-> 0, id |-> 1]

ParameterW == [kind |-> "Parameter", owner |-> 0, id |-> 2]

PlaceholderP == [kind |-> "Placeholder", owner |-> 0, id |-> 3]

PlaceholderQ == [kind |-> "Placeholder", owner |-> 0, id |-> 4]

NoVariable == [kind |-> "None", owner |-> 0, id |-> 0]

IsOutput(v) == v.kind = "Output"

IsPlaceholder(v) == v.kind = "Placeholder"

IsParameter(v) == v.kind = "Parameter"

Owner(v) == v.owner

\* The last Function of a graph has two outputs, the others one.
NumOutputs(f) == IF f = NumFunctions THEN 2 ELSE 1

\* rootFunction->InitOutputs(): the outputs of f, in order.
InitOutputs(f) == [k \in 1..NumOutputs(f) |-> OutputVar(f, k)]

OutputsOfAll(S) == UNION {{OutputVar(f, k) : k \in 1..NumOutputs(f)} : f \in S}

\* ---------------------------------------------------------------- helpers

SeqToSet(s) == {s[i] : i \in DOMAIN s}

Reverse(s) == [i \in 1..Len(s) |-> s[Len(s) + 1 - i]]

InputLists(S) == UNION {[1..n -> S] : n \in 0..MaxInputs}

\* The graphs the library can build: a Function is created over Variables
\* that exist already, so its inputs are leaves and outputs of earlier
\* Functions.
RECURSIVE GraphsOfArity(_, _, _)
GraphsOfArity(n, leaves, arity) ==
    IF n = 0 THEN {<<>>}
    ELSE {Append(g, l) :
             g \in GraphsOfArity(n - 1, leaves, arity),
             l \in {k \in InputLists(leaves \cup OutputsOfAll(1..(n - 1))) :
                       Len(k) <= arity}}

Graphs(n, leaves) == GraphsOfArity(n, leaves, MaxInputs)

\* Function::ReplacePlaceholders on the Functions in S: every input that is
\* a key of the map is replaced in place.
ReplaceInputs(g, S, map) ==
    [f \in DOMAIN g |->
        IF f \in S
        THEN [i \in DOMAIN g[f] |->
                 IF g[f][i] \in DOMAIN map THEN map[g[f][i]] ELSE g[f][i]]
        ELSE g[f]]

\* ----------------------------------------------------------------- state

VARIABLES
    m_inputs,            \* Function -> its inputs (Function::m_inputs)
    rootFunction,        \* the root of the traversal under way
    pythonOperandOrder,  \* the flag of the traversal under way
    preOrder,            \* the flag of the traversal under way
    caller,              \* who called TraverseVariables
    pc,                  \* "start", "running", "returned"
    stack,               \* the frames of TraverseVariables, innermost last
    visitedFunctions,    \* the set shared by the frames
    trace,               \* entries of TraverseVariables and functor calls
    inputs,              \* DetermineInputs: the vector being built
    uniqueInputs,        \* DetermineInputs: the set beside it
    preorderTrace,       \* the trace of the finished pre-order traversal
    m_rootFunction,          \* the composite's root (0: no composite yet)
    m_allPrimitiveFunctions, \* the Functions the composite owns
    placeholderReplacements, \* the last ReplacePlaceholders: what replaced
                             \* each Placeholder it found
    replacedPlaceholders,    \* the Placeholders it replaced
    newlyOwned,              \* the Functions it added to the owned set
    replaceCalls,            \* the number of ReplacePlaceholders calls so far
    lastCall,                \* the last operation called on the composite
    m_computationNetwork,    \* "null" or "built"
    m_variableToNodeMap,     \* the Variables that have a node in the network
    m_isVariableRootMap,     \* the Variables marked as roots of the network
    m_networkMatricesAllocated,
    m_currentBackpropRoots,  \* the backprop roots of the last Forward
    parameterTimeStamp,      \* the time stamp of the value of ParameterW
    backPropState,           \* the BackPropState the caller holds
    timeStampAtForward,      \* parameterTimeStamp when that Forward ran
    lastResult,              \* how the last Forward or Backward ended
    backPropagatedGradientValuesForInputs,
                             \* the time stamp of the Parameter value the
                             \* gradients were computed with (-1: none)
    m_existingNetworkStorageReferences,
                             \* the weak references, oldest first
    packedValues,            \* PackedValue -> its holder's state and the
                             \* number of Erase() calls on it
    s_nextAutoGeneratedDynamicAxis,
                             \* the static atomic counter
    axisPc,                  \* thread -> "idle" or "incremented"
    axisValue,               \* thread -> what its post-increment returned
    axisCalls,               \* the number of calls made so far
    returnedAxes             \* the bag of the names of the Axes returned

tvars == <<rootFunction, pythonOperandOrder, preOrder, caller, pc, stack,
           visitedFunctions, trace, inputs, uniqueInputs, preorderTrace>>

ovars == <<m_rootFunction, m_allPrimitiveFunctions, placeholderReplacements,
           replacedPlaceholders, newlyOwned, replaceCalls>>

cvars == <<ovars, lastCall>>

evars == <<m_computationNetwork, m_variableToNodeMap, m_isVariableRootMap,
           m_networkMatricesAllocated, m_currentBackpropRoots,
           parameterTimeStamp, backPropState, timeStampAtForward, lastResult,
           backPropagatedGradientValuesForInputs>>

svars == <<m_existingNetworkStorageReferences, packedValues>>

avars == <<s_nextAutoGeneratedDynamicAxis, axisPc, axisValue, axisCalls,
           returnedAxes>>

vars == <<m_inputs, tvars, cvars, evars, svars, avars>>

\* ------------------------------------------------------ TraverseVariables

\* rootFunction->Inputs(pythonOperandOrder): the alternate order is the
\* declaration order reversed.
Inputs(f, python) == IF python THEN Reverse(m_inputs[f]) ELSE m_inputs[f]

EnterEvent(f, parent) ==
    [op |-> "enter", fn |-> f, par |-> parent, var |-> NoVariable]

FunctorEvent(f, v) == [op |-> "functor", fn |-> f, par |-> 0, var |-> v]

\* A lambda that does not look the Variable up in uniqueInputs.
DetermineInputsFunctorNoLookup(st, var) ==
    IF ~IsOutput(var)
    THEN [st EXCEPT !.inputs = Append(@, var),
                    !.uniqueInputs = @ \cup {var}]
    ELSE st

\* The lambda of DetermineInputs: keeps a Variable that is no Output and was
\* not kept before.
DetermineInputsFunctor(st, var) ==
    IF ~IsOutput(var) /\ var \notin st.uniqueInputs
    THEN [st EXCEPT !.inputs = Append(@, var),
                    !.uniqueInputs = @ \cup {var}]
    ELSE st

\* functor(var), called by the frame of f: the call is recorded, and the
\* lambda of DetermineInputs runs when DetermineInputs is the caller.
Functor(st, who, f, var) ==
    LET rec == [st EXCEPT !.trace = Append(@, FunctorEvent(f, var))]
    IN IF who = "DetermineInputs" THEN DetermineInputsFunctor(rec, var)
       ELSE rec

\* for (const auto& rootOutput : rootFunctionOutputs) functor(rootOutput);
RECURSIVE FunctorAll(_, _, _, _)
FunctorAll(st, who, f, vs) ==
    IF vs = <<>> THEN st
    ELSE FunctorAll(Functor(st, who, f, Head(vs)), who, f, Tail(vs))

FunctorState ==
    [trace |-> trace, inputs |-> inputs, uniqueInputs |-> uniqueInputs]

\* A traversal that recurses into every owner, visited or not.
NotVisitedUnchecked(visited, f) == TRUE

\* visitedFunctions.find(rootInput.Owner()) == visitedFunctions.end()
NotVisited(visited, f) == f \notin visited

\* The functor called on the outputs before the loop in either order.
OutputsBeforeInputsEitherOrder(order, f) == InitOutputs(f)

\* if (preOrder): the outputs the functor is called on before the loop.
OutputsBeforeInputs(order, f) == IF order THEN InitOutputs(f) ELSE <<>>

\* The functor never called on the outputs after the loop.
OutputsAfterInputsDropped(order, f) == <<>>

\* if (!preOrder): the outputs the functor is called on after the loop.
OutputsAfterInputs(order, f) == IF ~order THEN InitOutputs(f) ELSE <<>>

\* A head that does not insert the Function into the visited set.
TraverseVariablesEntryNoInsert(f, parent, stk, visited, st, who, order) ==
    LET entered == [st EXCEPT !.trace = Append(@, EnterEvent(f, parent))]
        after == FunctorAll(entered, who, f, OutputsBeforeInputs(order, f))
    IN /\ visitedFunctions' = visited
       /\ stack' = Append(stk, [fn |-> f, idx |-> 1])
       /\ trace' = after.trace
       /\ inputs' = after.inputs
       /\ uniqueInputs' = after.uniqueInputs

\* The head of TraverseVariables(f, ...), called from the frame of parent:
\* the insertion into the visited set and, in pre-order, the functor calls
\* on the outputs; the new frame is left at its first input.
TraverseVariablesEntry(f, parent, stk, visited, st, who, order) ==
    LET entered == [st EXCEPT !.trace = Append(@, EnterEvent(f, parent))]
        after == FunctorAll(entered, who, f, OutputsBeforeInputs(order, f))
    IN /\ visitedFunctions' = visited \cup {f}
       /\ stack' = Append(stk, [fn |-> f, idx |-> 1])
       /\ trace' = after.trace
       /\ inputs' = after.inputs
       /\ uniqueInputs' = after.uniqueInputs

Top == stack[Len(stack)]

TopInputs == Inputs(Top.fn, pythonOperandOrder)

Advanced == [stack EXCEPT ![Len(stack)].idx = @ + 1]

\* The loop reaches an input that is an Output whose owner was not visited:
\* the recursive call.
TraverseRecurse ==
    /\ pc = "running"
    /\ Top.idx <= Len(TopInputs)
    /\ IsOutput(TopInputs[Top.idx])
    /\ NotVisited(visitedFunctions, Owner(TopInputs[Top.idx]))
    /\ Len(stack) < MaxCallDepth
    /\ TraverseVariablesEntry(Owner(TopInputs[Top.idx]), Top.fn, Advanced,
                              visitedFunctions, FunctorState, caller, preOrder)
    /\ UNCHANGED <<m_inputs, rootFunction, pythonOperandOrder, preOrder,
                   caller, pc, preorderTrace, cvars, evars, svars, avars>>

\* The loop reaches an input that is an Output whose owner was visited.
TraverseSkipVisited ==
    /\ pc = "running"
    /\ Top.idx <= Len(TopInputs)
    /\ IsOutput(TopInputs[Top.idx])
    /\ ~NotVisited(visitedFunctions, Owner(TopInputs[Top.idx]))
    /\ stack' = Advanced
    /\ UNCHANGED <<m_inputs, rootFunction, pythonOperandOrder, preOrder,
                   caller, pc, visitedFunctions, trace, inputs, uniqueInputs,
                   preorderTrace, cvars, evars, svars, avars>>

\* The loop reaches an input that is no Output: functor(rootInput).
TraverseLeaf ==
    /\ pc = "running"
    /\ Top.idx <= Len(TopInputs)
    /\ ~IsOutput(TopInputs[Top.idx])
    /\ LET after == Functor(FunctorState, caller, Top.fn, TopInputs[Top.idx])
       IN /\ trace' = after.trace
          /\ inputs' = after.inputs
          /\ uniqueInputs' = after.uniqueInputs
    /\ stack' = Advanced
    /\ UNCHANGED <<m_inputs, rootFunction, pythonOperandOrder, preOrder,
                   caller, pc, visitedFunctions, preorderTrace, cvars, evars, svars, avars>>

\* The loop is over: in post-order the functor calls on the outputs, then
\* the return to the calling frame (or to the caller).
TraverseReturn ==
    /\ pc = "running"
    /\ Top.idx > Len(TopInputs)
    /\ LET after == FunctorAll(FunctorState, caller, Top.fn,
                               OutputsAfterInputs(preOrder, Top.fn))
       IN /\ trace' = after.trace
          /\ inputs' = after.inputs
          /\ uniqueInputs' = after.uniqueInputs
    /\ stack' = SubSeq(stack, 1, Len(stack) - 1)
    /\ pc' = IF Len(stack) = 1 THEN "returned" ELSE "running"
    /\ UNCHANGED <<m_inputs, rootFunction, pythonOperandOrder, preOrder,
                   caller, visitedFunctions, preorderTrace, cvars, evars, svars, avars>>

\* TraverseVariables(rootFunction, functor, pythonOperandOrder, preOrder):
\* a fresh visited set, then the traversal from the root.
TraverseVariables(who, order) ==
    /\ caller' = who
    /\ preOrder' = order
    /\ pc' = "running"
    /\ TraverseVariablesEntry(rootFunction, 0, <<>>, {},
                              [trace |-> <<>>, inputs |-> <<>>,
                               uniqueInputs |-> {}], who, order)
    /\ UNCHANGED <<m_inputs, rootFunction, pythonOperandOrder, cvars, evars,
                   svars, avars>>

\* PreorderTraverseVariables(rootFunction, functor, pythonOperandOrder)
PreorderTraverseVariables ==
    /\ pc = "start"
    /\ TraverseVariables("PreorderTraverseVariables", TRUE)
    /\ UNCHANGED preorderTrace

\* DetermineInputs(pythonOperandOrder) of the composite: the pre-order
\* traversal from RootFunction() with the lambda that fills 'inputs'.
DetermineInputs ==
    /\ pc = "start"
    /\ TraverseVariables("DetermineInputs", TRUE)
    /\ UNCHANGED preorderTrace

\* PostorderTraverseVariables(rootFunction, functor, pythonOperandOrder),
\* called on the graph a pre-order traversal has just walked.
PostorderTraverseVariables ==
    /\ pc = "returned"
    /\ preOrder
    /\ preorderTrace' = trace
    /\ TraverseVariables("PostorderTraverseVariables", FALSE)

\* -------------------------------------------------------- the composite

\* No BackPropState: the null BackPropStatePtr.
NoBackPropState == [function |-> 0, m_backpropRootsForwardTimeStamps |-> <<>>]

\* The composite as its constructor leaves it: no network, and
\* m_networkMatricesAllocated(false).
NoNetwork ==
    /\ m_computationNetwork = "null"
    /\ m_variableToNodeMap = {}
    /\ m_isVariableRootMap = {}
    /\ m_networkMatricesAllocated = FALSE
    /\ m_currentBackpropRoots = {}
    /\ parameterTimeStamp = 0
    /\ backPropState = NoBackPropState
    /\ timeStampAtForward = 0
    /\ lastResult = "none"
    /\ backPropagatedGradientValuesForInputs = -1

Threads == 1..NumThreads

\* The process at its start: the static counter is zero and no thread is in
\* NextAutoGeneratedDynamicAxis.
NoAxes ==
    /\ s_nextAutoGeneratedDynamicAxis = [hi |-> 0, lo |-> 0]
    /\ axisPc = [t \in Threads |-> "idle"]
    /\ axisValue = [t \in Threads |-> [hi |-> 0, lo |-> 0]]
    /\ axisCalls = 0
    /\ returnedAxes = EmptyBag

NoStorage ==
    /\ m_existingNetworkStorageReferences = <<>>
    /\ packedValues = [v \in 1..MaxPackedValues |->
                          [holder |-> "none", erased |-> 0]]

\* Function::PreorderTraverseFunctions with a functor that does nothing:
\* the Function is inserted into the visited set, then the owner of every
\* input that is an Output and was not visited is traversed.
RECURSIVE PreorderTraverseFunctions(_, _, _), TraverseFunctionInputs(_, _, _, _)
PreorderTraverseFunctions(g, f, visited) ==
    TraverseFunctionInputs(g, f, 1, visited \cup {f})

TraverseFunctionInputs(g, f, i, visited) ==
    IF i > Len(g[f]) THEN visited
    ELSE IF IsOutput(g[f][i]) /\ Owner(g[f][i]) \notin visited
         THEN TraverseFunctionInputs(g, f, i + 1,
                  PreorderTraverseFunctions(g, Owner(g[f][i]), visited))
         ELSE TraverseFunctionInputs(g, f, i + 1, visited)

\* A Collect that inserts the root and does not traverse.
CollectRootOnly(g, root, functions) == functions \cup {root}

\* Collect(rootFunction, functions): the set after the traversal.
Collect(g, root, functions) == PreorderTraverseFunctions(g, root, functions)

NoComposite ==
    /\ m_rootFunction = 0
    /\ m_allPrimitiveFunctions = {}
    /\ placeholderReplacements = <<>>
    /\ replacedPlaceholders = {}
    /\ newlyOwned = {}
    /\ replaceCalls = 0
    /\ lastCall = "none"

\* CompositeFunction::Create(rootFunction): Collect into a fresh set, which
\* the constructor moves into m_allPrimitiveFunctions.
Create ==
    \E root \in Functions :
        /\ m_rootFunction = 0
        /\ m_rootFunction' = root
        /\ m_allPrimitiveFunctions' = Collect(m_inputs, root, {})
        /\ placeholderReplacements' = <<>>
        /\ replacedPlaceholders' = {}
        /\ newlyOwned' = {}
        /\ replaceCalls' = 0
        /\ lastCall' = "Create"
        /\ UNCHANGED <<m_inputs, tvars, evars, svars, avars>>

\* An OnPlaceholdersReplaced that inserts the owner of the replacement and
\* not the Functions under it.
OnPlaceholdersReplacedOwnerOnly(g, owned, replacements, replaced) ==
    owned \cup {Owner(replacements[p]) :
                   p \in {q \in replaced : IsOutput(replacements[q])}}

\* An OnPlaceholdersReplaced that collects and does not insert.
OnPlaceholdersReplacedNoInsert(g, owned, replacements, replaced) == owned

\* OnPlaceholdersReplaced(placeholderReplacements, replacedPlaceholders):
\* for every replaced Placeholder whose replacement is an Output, the
\* Functions collected from the owner of the replacement are inserted into
\* m_allPrimitiveFunctions.  g is the graph after the replacement.
OnPlaceholdersReplaced(g, owned, replacements, replaced) ==
    owned \cup UNION {Collect(g, Owner(replacements[p]), {}) :
                         p \in {q \in replaced : IsOutput(replacements[q])}}

\* What a Placeholder may be replaced by.
ReplacementVariables == {OutputVar(f, 1) : f \in Functions} \cup {InputX}

ReplacementMaps ==
    UNION {[D -> ReplacementVariables] :
              D \in SUBSET {PlaceholderP, PlaceholderQ} \ {{}}}

\* Function::ReplacePlaceholders(placeholderReplacements) on the composite:
\* the Placeholders are replaced in the inputs of the Functions of its
\* graph, then OnPlaceholdersReplaced runs.
ReplacePlaceholders ==
    /\ m_rootFunction # 0
    /\ replaceCalls < MaxReplaceCalls
    /\ replaceCalls' = replaceCalls + 1
    /\ LET scope == PreorderTraverseFunctions(m_inputs, m_rootFunction, {})
           found == UNION {SeqToSet(m_inputs[f]) : f \in scope}
       IN \E map \in ReplacementMaps :
             LET replaced == DOMAIN map \cap found
                 g == ReplaceInputs(m_inputs, scope, map)
                 owned == OnPlaceholdersReplaced(g, m_allPrimitiveFunctions,
                                                 map, replaced)
             IN /\ m_inputs' = g
                /\ placeholderReplacements' = [p \in replaced |-> map[p]]
                /\ replacedPlaceholders' = replaced
                /\ m_allPrimitiveFunctions' = owned
                /\ newlyOwned' = owned \ m_allPrimitiveFunctions
    /\ lastCall' = "ReplacePlaceholders"
    /\ UNCHANGED <<m_rootFunction, tvars, evars, svars, avars>>

NoTraversal ==
    /\ rootFunction = 0
    /\ pythonOperandOrder = FALSE
    /\ preOrder = TRUE
    /\ caller = "none"
    /\ pc = "start"
    /\ stack = <<>>
    /\ visitedFunctions = {}
    /\ trace = <<>>
    /\ inputs = <<>>
    /\ uniqueInputs = {}
    /\ preorderTrace = <<>>

InitComposite ==
    /\ m_inputs \in Graphs(NumFunctions, {PlaceholderP, PlaceholderQ})
    /\ NoTraversal
    /\ NoComposite
    /\ NoNetwork
    /\ NoStorage
    /\ NoAxes

NextComposite ==
    \/ Create
    \/ ReplacePlaceholders

SpecComposite == InitComposite /\ [][NextComposite]_vars

\* The graphs traversed: those built over an Input and a Placeholder, the
\* Placeholder then left as it is or replaced by an Output (which is how a
\* graph gets a cycle).
TraversedGraphs ==
    {ReplaceInputs(g, Functions, PlaceholderP :> r) :
        g \in Graphs(NumFunctions, {InputX, PlaceholderP}),
        r \in {PlaceholderP} \cup OutputsOfAll(Functions)}

InitTraverse ==
    /\ m_inputs \in TraversedGraphs
    /\ rootFunction = NumFunctions
    /\ pythonOperandOrder \in BOOLEAN
    /\ preOrder = TRUE
    /\ caller = "none"
    /\ pc = "start"
    /\ stack = <<>>
    /\ visitedFunctions = {}
    /\ trace = <<>>
    /\ inputs = <<>>
    /\ uniqueInputs = {}
    /\ preorderTrace = <<>>
    /\ NoComposite
    /\ NoNetwork
    /\ NoStorage
    /\ NoAxes

NextTraverse ==
    \/ PreorderTraverseVariables
    \/ DetermineInputs
    \/ PostorderTraverseVariables
    \/ TraverseRecurse
    \/ TraverseSkipVisited
    \/ TraverseLeaf
    \/ TraverseReturn

SpecTraverse == InitTraverse /\ [][NextTraverse]_vars

\* The traversal runs on one thread that keeps running until it returns.
FairSpecTraverse == SpecTraverse /\ WF_vars(NextTraverse)

\* ------------------------------------------- what the graph makes reachable

\* The owners of the Outputs among the inputs of the Functions in S.
Producers(g, S) ==
    {Owner(v) : v \in {w \in UNION {SeqToSet(g[f]) : f \in S} : IsOutput(w)}}

\* The least set holding S and closed under Producers.
RECURSIVE ReachFrom(_, _)
ReachFrom(g, S) ==
    LET T == S \cup Producers(g, S)
    IN IF T = S THEN S ELSE ReachFrom(g, T)

ReachableFunctions == ReachFrom(m_inputs, {rootFunction})

ReachableVariables ==
    OutputsOfAll(ReachableFunctions)
        \cup UNION {SeqToSet(m_inputs[f]) : f \in ReachableFunctions}

ReachableLeaves == {v \in ReachableVariables : ~IsOutput(v)}

\* C consumes an output of P.
Consumes(C, P) == P \in Producers(m_inputs, {C})

Acyclic == \A f \in Functions : f \notin ReachFrom(m_inputs, Producers(m_inputs, {f}))

\* How often v stands in the input lists of the reachable Functions.
Occurrences(v) ==
    Cardinality({<<f, i>> \in ReachableFunctions \X (1..MaxInputs) :
                    i \in DOMAIN m_inputs[f] /\ m_inputs[f][i] = v})

\* ------------------------------------------------------- reading a trace

FunctorCalls(tr, v) == {i \in DOMAIN tr : tr[i].op = "functor" /\ tr[i].var = v}

CalledVariables(tr) == {tr[i].var : i \in {j \in DOMAIN tr : tr[j].op = "functor"}}

Entries(tr, f) == {i \in DOMAIN tr : tr[i].op = "enter" /\ tr[i].fn = f}

\* The places of the trace where the functor is called on an output of f.
OutputCalls(tr, f) ==
    {i \in DOMAIN tr : tr[i].op = "functor" /\ IsOutput(tr[i].var)
                          /\ Owner(tr[i].var) = f}

Returned == pc = "returned"

\* ------------------------------------------------------------ evaluation

\* The Functions and the Variables of the composite's graph.
OwnedReachable == ReachFrom(m_inputs, {m_rootFunction})

CompositeVariables ==
    OutputsOfAll(OwnedReachable)
        \cup UNION {SeqToSet(m_inputs[f]) : f \in OwnedReachable}

\* A compilation that does not look for unresolved Placeholders.
AllPlaceholdersResolvedUnchecked(variables) == TRUE

\* Compiling reaches no dangling Placeholder: "All PlaceHolder variables
\* should have been replaced before performing any Forward compute".
AllPlaceholdersResolved(variables) == \A v \in variables : ~IsPlaceholder(v)

\* The Parameters whose values the backprop roots are computed from.
InvolvedParameters(roots) ==
    {v \in UNION {SeqToSet(m_inputs[f]) :
                     f \in ReachFrom(m_inputs, {Owner(r) : r \in roots})} :
        IsParameter(v)}

\* GetCurrentBackpropRootsTimeStamps() for the given backprop roots: the
\* current time stamp of every Parameter involved.
BackpropRootsTimeStamps(roots) ==
    [v \in InvolvedParameters(roots) |-> parameterTimeStamp]

GetCurrentBackpropRootsTimeStamps == BackpropRootsTimeStamps(m_currentBackpropRoots)

\* CNTKBackPropState(function, computeDevice, backpropRootsForwardTimeStamps):
\* the map is copied into the member.
CNTKBackPropState(function, backpropRootsForwardTimeStamps) ==
    [function |-> function,
     m_backpropRootsForwardTimeStamps |-> backpropRootsForwardTimeStamps]

\* A state that refers to the time stamps of the composite instead of
\* holding its own.
BackpropRootsForwardTimeStampsShared(state) == GetCurrentBackpropRootsTimeStamps

\* CNTKBackPropState::BackpropRootsForwardTimeStamps().
BackpropRootsForwardTimeStamps(state) == state.m_backpropRootsForwardTimeStamps

\* What a Forward call may be asked to retain backward state for.
RetainChoices == {{}, {OutputVar(m_rootFunction, 1)}}

\* Forward(arguments, outputs, computeDevice, outputsToRetainBackwardStateFor):
\* the network is compiled if there is none (one node per Variable of the
\* graph, the outputs of the root marked as roots, the matrices allocated);
\* a Placeholder reached while compiling is a StructuralError that leaves
\* everything as it was.  The call returns a CNTKBackPropState holding the
\* current time stamps, or null when nothing is retained.
Forward ==
    /\ m_rootFunction # 0
    /\ lastCall' = "Forward"
    /\ \E retain \in RetainChoices :
          IF m_computationNetwork = "null"
                 /\ ~AllPlaceholdersResolved(CompositeVariables)
          THEN /\ lastResult' = "StructuralError"
               /\ UNCHANGED <<m_computationNetwork, m_variableToNodeMap,
                              m_isVariableRootMap, m_networkMatricesAllocated,
                              m_currentBackpropRoots, backPropState,
                              timeStampAtForward>>
          ELSE /\ lastResult' = "ok"
               /\ m_computationNetwork' = "built"
               /\ m_variableToNodeMap' =
                      IF m_computationNetwork = "null" THEN CompositeVariables
                      ELSE m_variableToNodeMap
               /\ m_isVariableRootMap' =
                      IF m_computationNetwork = "null"
                      THEN InitOutputs(m_rootFunction)
                      ELSE m_isVariableRootMap
               /\ m_networkMatricesAllocated' = TRUE
               /\ m_currentBackpropRoots' = retain
               /\ backPropState' =
                      IF retain = {} THEN NoBackPropState
                      ELSE CNTKBackPropState(m_rootFunction,
                                             BackpropRootsTimeStamps(retain))
               /\ timeStampAtForward' = parameterTimeStamp
    /\ UNCHANGED <<m_inputs, tvars, svars, avars, ovars,
                   parameterTimeStamp, backPropagatedGradientValuesForInputs>>

\* Parameter::SetValue: the value changes and its time stamp advances.
SetValue ==
    /\ parameterTimeStamp < MaxTimeStamp
    /\ parameterTimeStamp' = parameterTimeStamp + 1
    /\ lastCall' = "SetValue"
    /\ UNCHANGED <<m_inputs, tvars, svars, avars, ovars,
                   m_computationNetwork, m_variableToNodeMap,
                   m_isVariableRootMap, m_networkMatricesAllocated,
                   m_currentBackpropRoots, backPropState, timeStampAtForward,
                   lastResult, backPropagatedGradientValuesForInputs>>

\* Backward(state, rootGradientValues, backPropagatedGradientValuesForInputs):
\* the time stamps of the state are compared with the current ones; a
\* mismatch is a UsageError that leaves the gradients untouched, otherwise
\* the gradients are computed from the current Parameter values.
Backward ==
    /\ backPropState # NoBackPropState
    /\ backPropState.function = m_rootFunction
    /\ lastCall' = "Backward"
    /\ IF BackpropRootsForwardTimeStamps(backPropState)
              # GetCurrentBackpropRootsTimeStamps
       THEN /\ lastResult' = "UsageError"
            /\ UNCHANGED backPropagatedGradientValuesForInputs
       ELSE /\ lastResult' = "ok"
            /\ backPropagatedGradientValuesForInputs' = parameterTimeStamp
    /\ UNCHANGED <<m_inputs, tvars, svars, avars, ovars,
                   m_computationNetwork, m_variableToNodeMap,
                   m_isVariableRootMap, m_networkMatricesAllocated,
                   m_currentBackpropRoots, parameterTimeStamp, backPropState,
                   timeStampAtForward>>

\* The graphs evaluated: every Function has at most one input, a Parameter,
\* a Placeholder or the output of an earlier Function.
InitEval ==
    /\ m_inputs \in GraphsOfArity(NumFunctions, {ParameterW, PlaceholderP}, 1)
    /\ NoTraversal
    /\ NoComposite
    /\ NoNetwork
    /\ NoStorage
    /\ NoAxes

NextEval ==
    \/ Create
    \/ ReplacePlaceholders
    \/ Forward
    \/ SetValue
    \/ Backward

SpecEval == InitEval /\ [][NextEval]_vars

\* ---------------------------------------------------------------- storage

PackedValues == 1..MaxPackedValues

\* The network hands a buffer to a caller (GetNetworkOutputs,
\* GetNetworkGradients): a new PackedValue, held by the caller, and a weak
\* reference to it appended to m_existingNetworkStorageReferences.
GetNodeOutputOrGradient ==
    \E v \in PackedValues :
        /\ packedValues[v].holder = "none"
        /\ \A u \in PackedValues : u < v => packedValues[u].holder # "none"
        /\ packedValues' = [packedValues EXCEPT ![v].holder = "live"]
        /\ m_existingNetworkStorageReferences' =
               Append(m_existingNetworkStorageReferences, v)
        /\ lastCall' = "GetNodeOutputOrGradient"
        /\ UNCHANGED <<m_inputs, tvars, ovars, evars, avars>>

\* The caller drops its ValuePtr: the weak reference expires.
ReleaseValue ==
    \E v \in PackedValues :
        /\ packedValues[v].holder = "live"
        /\ packedValues' = [packedValues EXCEPT ![v].holder = "released"]
        /\ lastCall' = "ReleaseValue"
        /\ UNCHANGED <<m_inputs, tvars, ovars, evars, avars,
                       m_existingNetworkStorageReferences>>

\* The loop of ClearExistingOutputOrGradientStorageReferences: lock() every
\* weak reference in turn and Erase() the value if the lock succeeded.
RECURSIVE EraseExistingReferences(_, _)
EraseExistingReferences(values, references) ==
    IF references = <<>> THEN values
    ELSE EraseExistingReferences(
             IF values[Head(references)].holder = "live"
             THEN [values EXCEPT ![Head(references)].erased = @ + 1]
             ELSE values,
             Tail(references))

\* A clear that leaves the references in the list.
ReferencesLeftUncleared(references) == references

\* m_existingNetworkStorageReferences.clear().
ReferencesLeft(references) == <<>>

ClearExistingOutputOrGradientStorageReferences ==
    /\ packedValues' = EraseExistingReferences(packedValues,
                                               m_existingNetworkStorageReferences)
    /\ m_existingNetworkStorageReferences' =
           ReferencesLeft(m_existingNetworkStorageReferences)
    /\ lastCall' = "ClearExistingOutputOrGradientStorageReferences"
    /\ UNCHANGED <<m_inputs, tvars, ovars, evars, avars>>

InitStorage ==
    /\ m_inputs = <<>>
    /\ NoTraversal
    /\ NoComposite
    /\ NoNetwork
    /\ NoStorage
    /\ NoAxes

NextStorage ==
    \/ GetNodeOutputOrGradient
    \/ ReleaseValue
    \/ ClearExistingOutputOrGradientStorageReferences

SpecStorage == InitStorage /\ [][NextStorage]_vars

\* ------------------------------------------- NextAutoGeneratedDynamicAxis

s_autoGeneratedDynamicAxisNamePrefix == "autoGeneratedDynamicAxis_"

Digit(d) == <<"0", "1", "2", "3", "4", "5", "6", "7", "8", "9">>[d + 1]

\* The unsigned int with the value n (n below 2^31).
UInt(n) == [hi |-> n \div HalfModulus, lo |-> n % HalfModulus]

\* std::to_wstring of an unsigned int: its decimal digits, the most
\* significant first (division by ten, half by half).
RECURSIVE ToWString(_)
ToWString(n) ==
    LET t == (n.hi % 10) * HalfModulus + n.lo
        q == [hi |-> n.hi \div 10, lo |-> t \div 10]
    IN IF q = UInt(0) THEN <<Digit(t % 10)>>
       ELSE Append(ToWString(q), Digit(t % 10))

\* Axis(s_autoGeneratedDynamicAxisNamePrefix + std::to_wstring(value)): the
\* name of the Axis, the prefix followed by the digits.
AxisName(value) == <<s_autoGeneratedDynamicAxisNamePrefix>> \o ToWString(value)

\* An increment whose result is not stored in the counter.
PostIncrementLost(counter) == [value |-> counter, counter |-> counter]

\* s_nextAutoGeneratedDynamicAxis++ on the std::atomic<unsigned int>: one
\* atomic read-modify-write that yields the value before it and wraps
\* around at 2^32.
PostIncrement(counter) ==
    [value |-> counter,
     counter |-> IF counter.lo + 1 < HalfModulus
                 THEN [counter EXCEPT !.lo = @ + 1]
                 ELSE [hi |-> (counter.hi + 1) % HalfModulus, lo |-> 0]]

\* A thread calls NextAutoGeneratedDynamicAxis and does the post-increment.
AxisPostIncrement ==
    \E t \in Threads :
        /\ axisPc[t] = "idle"
        /\ axisCalls < MaxAxisCalls
        /\ axisCalls' = axisCalls + 1
        /\ axisValue' = [axisValue EXCEPT
                            ![t] = PostIncrement(s_nextAutoGeneratedDynamicAxis).value]
        /\ s_nextAutoGeneratedDynamicAxis' =
               PostIncrement(s_nextAutoGeneratedDynamicAxis).counter
        /\ axisPc' = [axisPc EXCEPT ![t] = "incremented"]
        /\ UNCHANGED <<m_inputs, tvars, cvars, evars, svars, returnedAxes>>

\* The thread builds the name from the value it got and returns the Axis.
AxisReturn ==
    \E t \in Threads :
        /\ axisPc[t] = "incremented"
        /\ returnedAxes' = returnedAxes (+) SetToBag({AxisName(axisValue[t])})
        /\ axisPc' = [axisPc EXCEPT ![t] = "idle"]
        /\ UNCHANGED <<m_inputs, tvars, cvars, evars, svars,
                       s_nextAutoGeneratedDynamicAxis, axisValue, axisCalls>>

InitAxis ==
    /\ m_inputs = <<>>
    /\ NoTraversal
    /\ NoComposite
    /\ NoNetwork
    /\ NoStorage
    /\ NoAxes

NextAxis ==
    \/ AxisPostIncrement
    \/ AxisReturn

SpecAxis == InitAxis /\ [][NextAxis]_vars

\* ------------------------------------------------------------------- C2

\* C2 as stated: when TraverseVariables returns (pre-order or post-order),
\* the functor was called exactly once on every reachable Variable, and on
\* no other.
C2_EveryVariableExactlyOnce ==
    Returned =>
        /\ CalledVariables(trace) = ReachableVariables
        /\ \A v \in ReachableVariables : Cardinality(FunctorCalls(trace, v)) = 1

\* C2 as amended: when TraverseVariables returns, the functor was called on
\* every reachable Variable and on no other; exactly once on every Output,
\* and on a Variable that is no Output once for each place it has in the
\* input lists of the reachable Functions.
C2_OutputsOnceLeavesPerOccurrence ==
    Returned =>
        /\ CalledVariables(trace) = ReachableVariables
        /\ \A v \in ReachableVariables :
              Cardinality(FunctorCalls(trace, v)) =
                  IF IsOutput(v) THEN 1 ELSE Occurrences(v)

\* A post-order traversal has returned from a graph in which one leaf is an
\* input of two Functions and an Output is consumed by two Functions.
C2_Witness ==
    /\ Returned
    /\ ~preOrder
    /\ \E v \in ReachableLeaves :
          /\ Cardinality({f \in ReachableFunctions : v \in SeqToSet(m_inputs[f])}) = 2
          /\ Cardinality(FunctorCalls(trace, v)) = 2
    /\ \E P \in ReachableFunctions :
          Cardinality({C \in ReachableFunctions \ {P} : Consumes(C, P)}) = 2

\* ------------------------------------------------------------------- C3

\* C3 as stated (a Function is visited when the functor is called on its
\* outputs): for P and a consumer C of P, pre-order passes P's outputs
\* before C's, post-order after.
C3_ProducerBeforeConsumerInPreorder ==
    Returned =>
        \A P \in ReachableFunctions : \A C \in ReachableFunctions \ {P} :
            Consumes(C, P) =>
                \A a \in OutputCalls(trace, P) : \A b \in OutputCalls(trace, C) :
                    IF preOrder THEN a < b ELSE b < a

\* C3 as amended: the order is the other way round, and in pre-order it
\* holds for the consumer the traversal descended from.  For every Function
\* P entered from the frame of C (C consumes an output of P), pre-order
\* passes C's outputs to the functor before P's and post-order passes P's
\* before C's; on an acyclic graph post-order passes the outputs of every
\* producer before those of each of its consumers.
C3_ConsumerFirstInPreorderProducerFirstInPostorder ==
    Returned =>
        /\ \A i \in DOMAIN trace :
              (trace[i].op = "enter" /\ trace[i].par # 0) =>
                  /\ Consumes(trace[i].par, trace[i].fn)
                  /\ \A c \in OutputCalls(trace, trace[i].par) :
                        \A p \in OutputCalls(trace, trace[i].fn) :
                            IF preOrder THEN c < p ELSE p < c
        /\ (~preOrder /\ Acyclic) =>
              \A P \in ReachableFunctions : \A C \in ReachableFunctions :
                  Consumes(C, P) =>
                      \A p \in OutputCalls(trace, P) :
                          \A c \in OutputCalls(trace, C) : p < c

\* A post-order traversal has returned from an acyclic graph in which a
\* Function has two consumers (a diamond).
C3_Witness ==
    /\ Returned
    /\ ~preOrder
    /\ Acyclic
    /\ \E P \in ReachableFunctions :
          Cardinality({C \in ReachableFunctions : Consumes(C, P)}) = 2

\* ------------------------------------------------------------------- C4

\* C4: the pre-order and the post-order traversal of one graph from one
\* root, with the same operand order, call the functor on the same set of
\* Variables.
C4_SameVariableSet ==
    (Returned /\ caller = "PostorderTraverseVariables") =>
        CalledVariables(preorderTrace) = CalledVariables(trace)

\* Both traversals have returned from a graph with a cycle, having called
\* the functor in different orders.
C4_Witness ==
    /\ Returned
    /\ caller = "PostorderTraverseVariables"
    /\ ~Acyclic
    /\ Cardinality(CalledVariables(trace)) >= 3
    /\ SelectSeq(trace, LAMBDA e : e.op = "functor")
           # SelectSeq(preorderTrace, LAMBDA e : e.op = "functor")

\* ------------------------------------------------------------------- C9

FirstCall(tr, v) ==
    CHOOSE i \in FunctorCalls(tr, v) : \A j \in FunctorCalls(tr, v) : i <= j

\* C9: the list DetermineInputs returns holds the reachable Variables that
\* are no Output, each once, in the order of their first functor call of
\* the pre-order traversal.
C9_InputsAreLeavesOnceInFirstSeenOrder ==
    (Returned /\ caller = "DetermineInputs") =>
        /\ SeqToSet(inputs) = ReachableLeaves
        /\ \A i \in DOMAIN inputs : ~IsOutput(inputs[i])
        /\ \A i \in DOMAIN inputs : \A j \in DOMAIN inputs :
              i < j => /\ inputs[i] # inputs[j]
                       /\ FirstCall(trace, inputs[i]) < FirstCall(trace, inputs[j])

\* DetermineInputs has returned two leaves, of which the first feeds two
\* Functions, from a traversal in the alternate operand order.
C9_Witness ==
    /\ Returned
    /\ caller = "DetermineInputs"
    /\ pythonOperandOrder
    /\ Len(inputs) = 2
    /\ Cardinality({f \in ReachableFunctions : inputs[1] \in SeqToSet(m_inputs[f])}) = 2

\* ------------------------------------------------------------------- C1


\* C1: right after Create(root) the composite owns exactly the Functions
\* reachable from root through the owners of Output inputs.
C1_OwnedSetIsReachableSet ==
    lastCall = "Create" => m_allPrimitiveFunctions = OwnedReachable

\* Create has collected a graph in which one Function is consumed by two
\* others (a shared sub-expression).
C1_Witness ==
    /\ lastCall = "Create"
    /\ \E P \in m_allPrimitiveFunctions :
          Cardinality({C \in m_allPrimitiveFunctions \ {P} :
                          P \in Producers(m_inputs, {C})}) = 2

\* ------------------------------------------------------------------- C5

\* C5: the composite owns every Function reachable from its root, and after
\* ReplacePlaceholders every Function reachable from the owner of an Output
\* that replaced a Placeholder.
C5_OwnedSetCoversSplicedGraphs ==
    m_rootFunction # 0 =>
        /\ OwnedReachable \subseteq m_allPrimitiveFunctions
        /\ lastCall = "ReplacePlaceholders" =>
              \A p \in replacedPlaceholders :
                  IsOutput(placeholderReplacements[p]) =>
                      ReachFrom(m_inputs, {Owner(placeholderReplacements[p])})
                          \subseteq m_allPrimitiveFunctions

\* Two Placeholders were replaced by Outputs of two Functions and the
\* replacement brought Functions into the owned set.
C5_Witness ==
    /\ lastCall = "ReplacePlaceholders"
    /\ replacedPlaceholders = {PlaceholderP, PlaceholderQ}
    /\ IsOutput(placeholderReplacements[PlaceholderP])
    /\ IsOutput(placeholderReplacements[PlaceholderQ])
    /\ Owner(placeholderReplacements[PlaceholderP])
           # Owner(placeholderReplacements[PlaceholderQ])
    /\ Cardinality(newlyOwned) = 2

\* ------------------------------------------------------------------ C10

EnteredAtMostOnce == \A f \in Functions : Cardinality(Entries(trace, f)) <= 1

EnteredExactlyTheReachable ==
    \A f \in Functions :
        Cardinality(Entries(trace, f)) = IF f \in ReachableFunctions THEN 1 ELSE 0

\* C10: on every graph, with diamonds and with cycles, no Function is
\* entered twice, both traversals return, and a traversal that has returned
\* has entered exactly the reachable Functions, each once.
C10_TraversalTerminates ==
    /\ [](EnteredAtMostOnce /\ (Returned => EnteredExactlyTheReachable))
    /\ <>(Returned /\ caller = "PostorderTraverseVariables")

\* A traversal has returned from a graph with a cycle through the root and
\* a Function consumed twice.
C10_Witness ==
    /\ Returned
    /\ rootFunction \in ReachFrom(m_inputs, Producers(m_inputs, {rootFunction}))
    /\ \E P \in ReachableFunctions \ {rootFunction} :
          Cardinality({C \in ReachableFunctions : Consumes(C, P)}) = 2

\* ------------------------------------------------------------------- C8

InList(v) == v \in SeqToSet(m_existingNetworkStorageReferences)

Issued(v) == packedValues[v].holder # "none"

\* C8: Erase is called at most once on a value and never on one still in the
\* list; a value handed out before the last clear (issued and no longer in
\* the list) that is still live has been erased exactly once; and right
\* after ClearExistingOutputOrGradientStorageReferences the list is empty.
C8_NoLiveUnerasedHandleBeforeLastClear ==
    /\ \A v \in PackedValues :
          /\ packedValues[v].erased <= 1
          /\ InList(v) => Issued(v) /\ packedValues[v].erased = 0
          /\ Issued(v) /\ ~InList(v) /\ packedValues[v].holder = "live"
                 => packedValues[v].erased = 1
          /\ packedValues[v].erased = 1 => Issued(v) /\ ~InList(v)
    /\ lastCall = "ClearExistingOutputOrGradientStorageReferences"
           => m_existingNetworkStorageReferences = <<>>

\* A clear has just run on a list that held a live value, now erased, and a
\* value whose holder had been released, skipped; an earlier clear had
\* already erased another value.
C8_Witness ==
    /\ lastCall = "ClearExistingOutputOrGradientStorageReferences"
    /\ packedValues[1].holder = "live" /\ packedValues[1].erased = 1
    /\ packedValues[2].holder = "released" /\ packedValues[2].erased = 0
    /\ packedValues[3].holder = "live" /\ packedValues[3].erased = 1
    /\ ~Issued(4)

\* ------------------------------------------------------------------- C7

AxisInFlight == {t \in Threads : axisPc[t] = "incremented"}

\* C11: in every interleaving, no name has been returned twice, the threads
\* in flight hold pairwise different values, and the names returned together
\* with those of the values in flight are exactly the names of 0 .. n-1,
\* each taken once, where n is the number of calls made and also the value
\* of the counter (no value is skipped or used twice).
C11_AxisNamesDistinctAndCounterDense ==
    /\ \A name \in BagToSet(returnedAxes) : CopiesIn(name, returnedAxes) = 1
    /\ \A t, u \in AxisInFlight : t # u => axisValue[t] # axisValue[u]
    /\ s_nextAutoGeneratedDynamicAxis = UInt(axisCalls)
    /\ BagCardinality(returnedAxes) + Cardinality(AxisInFlight) = axisCalls
    /\ BagToSet(returnedAxes) \cup {AxisName(axisValue[t]) : t \in AxisInFlight}
           = {AxisName(UInt(k)) : k \in 0..(axisCalls - 1)}

\* One thread got the value 0 and has not returned yet, while the other
\* threads have made ten calls and returned their names, the last of two
\* digits.
C11_Witness ==
    /\ \E t \in AxisInFlight : axisValue[t] = UInt(0)
    /\ BagCardinality(returnedAxes) = 10
    /\ BagIn(<<"autoGeneratedDynamicAxis_", "1", "0">>, returnedAxes)

====
